---- MODULE Spec2Model ----
(***************************************************************************)
(* Model of the tree-sitter external scanner of Yuho                       *)
(* (src/tree-sitter-yuho/src/scanner.c): the three-field Scanner record,   *)
(* its 3-byte codec, and the scan entry point with its two helpers.        *)
(*                                                                         *)
(* A character is a one-character string; the text handed to one scan call *)
(* is the sequence of characters from the host's cursor to the end of the  *)
(* input.  Positions are 1-based indexes into that sequence; position      *)
(* Len(text)+1 is end of input.                                            *)
(***************************************************************************)
EXTENDS Integers, Sequences, FiniteSets, TLC

VARIABLES in_string, in_interpolation, interpolation_depth,
          op, prev, input, valid_symbols,
          returned, result_symbol, token_start, pos, trace,
          buffer, length

vars == <<in_string, in_interpolation, interpolation_depth,
          op, prev, input, valid_symbols,
          returned, result_symbol, token_start, pos, trace,
          buffer, length>>

scannerVars == <<in_string, in_interpolation, interpolation_depth>>
lexerVars == <<input, valid_symbols, returned, result_symbol, token_start, pos, trace>>
codecVars == <<buffer, length>>

-----------------------------------------------------------------------------
(* Characters the scanner distinguishes.                                   *)
NUL == "NUL"
QUOTE == "\""
BACKSLASH == "\\"
DOLLAR == "$"
LBRACE == "{"
RBRACE == "}"
SPACE == " "
LETTER == "a"

Alphabet == {NUL, QUOTE, BACKSLASH, DOLLAR, LBRACE, RBRACE, SPACE, LETTER}

(* enum TokenType *)
STRING_CONTENT == "STRING_CONTENT"
INTERPOLATION_START == "INTERPOLATION_START"
INTERPOLATION_END == "INTERPOLATION_END"
ERROR_SENTINEL == "ERROR_SENTINEL"
TokenType == {STRING_CONTENT, INTERPOLATION_START, INTERPOLATION_END, ERROR_SENTINEL}

(* lexer->result_symbol before the scanner has assigned it *)
UNSET == "UNSET"

(* uint8_t interpolation_depth: arithmetic is modulo 2^8 *)
Uint8Range == 256
(* range of a signed 8-bit char: values from 2^7 up wrap to negatives *)
Int8Max == 127
(* number of bytes serialize writes, and the least length deserialize restores from *)
SnapshotLen == 3

-----------------------------------------------------------------------------
(* Bounds of the model.                                                    *)

(* longest text handed to one scan call in the single-call specification *)
MaxLen == 3

Seqs(S, n) == UNION {[1..k -> S] : k \in 0..n}

Inputs == Seqs(Alphabet, MaxLen)

(* texts and accepted sets the host uses in the long-running session *)
SessionInputs ==
  { <<>>, <<LETTER>>, <<LBRACE>>, <<RBRACE>>, <<QUOTE>>,
    <<DOLLAR, LBRACE>>, <<LETTER, DOLLAR, LBRACE>>, <<SPACE, RBRACE>> }

SessionValid ==
  { {}, {STRING_CONTENT}, {INTERPOLATION_END},
    {STRING_CONTENT, INTERPOLATION_END}, TokenType }

(* bytes the host may put in a buffer shorter than a snapshot *)
ByteSamples == {-128, -1, 0, 1, 127}

-----------------------------------------------------------------------------
(* Scanner record                                                          *)

Scanner(s, i, d) ==
  [in_string |-> s, in_interpolation |-> i, interpolation_depth |-> d]

Current == Scanner(in_string, in_interpolation, interpolation_depth)

(* tree_sitter_yuho_external_scanner_create *)
create == Scanner(FALSE, FALSE, 0)

-----------------------------------------------------------------------------
(* Boundary codec                                                          *)

(* (char)x for x in 0..255: where char is signed, values above 127 wrap *)
ToChar(x, char_signed) ==
  IF char_signed /\ x > Int8Max THEN x - Uint8Range ELSE x

(* conversion of a char to bool: any non-zero value is true *)
ToBool(c) == c # 0

(* conversion of a char to uint8_t: reduction modulo 2^8 *)
ToUint8(c) == c % Uint8Range

BoolToInt(b) == IF b THEN 1 ELSE 0

(* tree_sitter_yuho_external_scanner_serialize: the bytes written *)
serialize(s, char_signed) ==
  << ToChar(BoolToInt(s.in_string), char_signed),
     ToChar(BoolToInt(s.in_interpolation), char_signed),
     ToChar(s.interpolation_depth, char_signed) >>

(* deserialize storing the depth byte without reducing it to 8 bits *)
deserialize_no_wrap(buf, len) ==
  IF len >= SnapshotLen
    THEN Scanner(ToBool(buf[1]), ToBool(buf[2]), buf[3])
    ELSE Scanner(FALSE, FALSE, 0)

(* deserialize restoring in_string from whatever bytes a short buffer holds *)
deserialize_partial(buf, len) ==
  IF len >= SnapshotLen
    THEN Scanner(ToBool(buf[1]), ToBool(buf[2]), ToUint8(buf[3]))
    ELSE Scanner(len >= 1 /\ ToBool(buf[1]), FALSE, 0)

(* tree_sitter_yuho_external_scanner_deserialize *)
deserialize(buf, len) ==
  IF len >= SnapshotLen
    THEN Scanner(ToBool(buf[1]), ToBool(buf[2]), ToUint8(buf[3]))
    ELSE Scanner(FALSE, FALSE, 0)

-----------------------------------------------------------------------------
(* Cursor (TSLexer) as seen by the scanner                                 *)

(* lexer->eof(lexer) *)
eof(text, p) == p > Len(text)

(* lexer->lookahead: the character at the cursor, 0 at end of input *)
lookahead(text, p) == IF p <= Len(text) THEN text[p] ELSE NUL

(* advance(): consume the character at the cursor into the token *)
advance(p) == p + 1

(* skip(): consume the character at the cursor and restart the token after it *)
skip(p) == p + 1

(* iswspace in the C locale *)
iswspace(c) == c \in {" ", "\t", "\n", "\r", "\f"}

-----------------------------------------------------------------------------
(* scan_string_content: one call of the loop body per recursion step.      *)
(* p is the cursor at the top of the loop, tr the loop-top positions so    *)
(* far.  The result says what the function returns, the symbol it stored,  *)
(* the final cursor, and whether it started an interpolation.              *)

StringResult(ret, sym, p, started, tr) ==
  [returned |-> ret, result_symbol |-> sym, pos |-> p, started |-> started, trace |-> tr]

(* scan_string_content consuming the backslash alone, so that the escaped *)
(* character is looked at again at the top of the loop *)
RECURSIVE scan_string_content_no_escape(_, _, _, _)
scan_string_content_no_escape(text, p, has_content, tr) ==
  LET here == Append(tr, p)
      stop == StringResult(has_content,
                           IF has_content THEN STRING_CONTENT ELSE UNSET,
                           p, FALSE, here)
  IN
  IF lookahead(text, p) = NUL \/ eof(text, p) THEN stop
  ELSE IF lookahead(text, p) = QUOTE THEN stop
  ELSE IF lookahead(text, p) = BACKSLASH THEN
    scan_string_content_no_escape(text, advance(p), TRUE, here)
  ELSE IF lookahead(text, p) = DOLLAR THEN
    LET p1 == advance(p) IN
    IF lookahead(text, p1) = LBRACE
      THEN StringResult(TRUE, INTERPOLATION_START, advance(p1), TRUE, here)
      ELSE scan_string_content_no_escape(text, p1, TRUE, here)
  ELSE scan_string_content_no_escape(text, advance(p), TRUE, here)

(* scan_string_content reporting the literal content met before an opener *)
(* and leaving the opener for the next call *)
RECURSIVE scan_string_content_content_first(_, _, _, _)
scan_string_content_content_first(text, p, has_content, tr) ==
  LET here == Append(tr, p)
      stop == StringResult(has_content,
                           IF has_content THEN STRING_CONTENT ELSE UNSET,
                           p, FALSE, here)
  IN
  IF lookahead(text, p) = NUL \/ eof(text, p) THEN stop
  ELSE IF lookahead(text, p) = QUOTE THEN stop
  ELSE IF lookahead(text, p) = BACKSLASH THEN
    LET p1 == advance(p) IN
    IF lookahead(text, p1) # NUL /\ ~eof(text, p1)
      THEN scan_string_content_content_first(text, advance(p1), TRUE, here)
      ELSE scan_string_content_content_first(text, p1, has_content, here)
  ELSE IF lookahead(text, p) = DOLLAR THEN
    LET p1 == advance(p) IN
    IF lookahead(text, p1) = LBRACE
      THEN IF has_content
             THEN stop
             ELSE StringResult(TRUE, INTERPOLATION_START, advance(p1), TRUE, here)
      ELSE scan_string_content_content_first(text, p1, TRUE, here)
  ELSE scan_string_content_content_first(text, advance(p), TRUE, here)

(* scan_string_content looking at a lone dollar sign again instead of     *)
(* going past it; the loop is cut off once it has run more often than the  *)
(* text has positions                                                      *)
RECURSIVE scan_string_content_stall(_, _, _, _)
scan_string_content_stall(text, p, has_content, tr) ==
  LET here == Append(tr, p)
      stop == StringResult(has_content,
                           IF has_content THEN STRING_CONTENT ELSE UNSET,
                           p, FALSE, here)
  IN
  IF Len(tr) > Len(text) + 2 THEN stop
  ELSE IF lookahead(text, p) = NUL \/ eof(text, p) THEN stop
  ELSE IF lookahead(text, p) = QUOTE THEN stop
  ELSE IF lookahead(text, p) = BACKSLASH THEN
    LET p1 == advance(p) IN
    IF lookahead(text, p1) # NUL /\ ~eof(text, p1)
      THEN scan_string_content_stall(text, advance(p1), TRUE, here)
      ELSE scan_string_content_stall(text, p1, has_content, here)
  ELSE IF lookahead(text, p) = DOLLAR THEN
    LET p1 == advance(p) IN
    IF lookahead(text, p1) = LBRACE
      THEN StringResult(TRUE, INTERPOLATION_START, advance(p1), TRUE, here)
      ELSE scan_string_content_stall(text, p, TRUE, here)
  ELSE scan_string_content_stall(text, advance(p), TRUE, here)

RECURSIVE scan_string_content(_, _, _, _)
scan_string_content(text, p, has_content, tr) ==
  LET here == Append(tr, p)
      stop == StringResult(has_content,
                           IF has_content THEN STRING_CONTENT ELSE UNSET,
                           p, FALSE, here)
  IN
  IF lookahead(text, p) = NUL \/ eof(text, p) THEN stop
  ELSE IF lookahead(text, p) = QUOTE THEN stop
  ELSE IF lookahead(text, p) = BACKSLASH THEN
    LET p1 == advance(p) IN
    IF lookahead(text, p1) # NUL /\ ~eof(text, p1)
      THEN scan_string_content(text, advance(p1), TRUE, here)
      ELSE scan_string_content(text, p1, has_content, here)
  ELSE IF lookahead(text, p) = DOLLAR THEN
    LET p1 == advance(p) IN
    IF lookahead(text, p1) = LBRACE
      THEN StringResult(TRUE, INTERPOLATION_START, advance(p1), TRUE, here)
      ELSE scan_string_content(text, p1, TRUE, here)
  ELSE scan_string_content(text, advance(p), TRUE, here)

-----------------------------------------------------------------------------
(* scan_interpolation_end: the scanner after the call, whether it          *)
(* returned true, and the cursor.                                          *)

(* scan_interpolation_end storing the decremented depth only where it     *)
(* reports the end                                                         *)
scan_interpolation_end_keep(text, p, s) ==
  IF s.in_interpolation /\ lookahead(text, p) = RBRACE
    THEN LET d == (s.interpolation_depth - 1) % Uint8Range IN
         IF d = 0
           THEN [scanner |-> Scanner(s.in_string, FALSE, d),
                 returned |-> TRUE, pos |-> advance(p)]
           ELSE [scanner |-> s, returned |-> FALSE, pos |-> p]
    ELSE [scanner |-> s, returned |-> FALSE, pos |-> p]

(* scan_interpolation_end leaving the string together with the            *)
(* interpolation                                                           *)
scan_interpolation_end_leave_string(text, p, s) ==
  IF s.in_interpolation /\ lookahead(text, p) = RBRACE
    THEN LET d == (s.interpolation_depth - 1) % Uint8Range IN
         IF d = 0
           THEN [scanner |-> Scanner(FALSE, FALSE, d),
                 returned |-> TRUE, pos |-> advance(p)]
           ELSE [scanner |-> Scanner(s.in_string, s.in_interpolation, d),
                 returned |-> FALSE, pos |-> p]
    ELSE [scanner |-> s, returned |-> FALSE, pos |-> p]

(* scan_interpolation_end reporting the end without consuming the brace *)
scan_interpolation_end_no_advance(text, p, s) ==
  IF s.in_interpolation /\ lookahead(text, p) = RBRACE
    THEN LET d == (s.interpolation_depth - 1) % Uint8Range IN
         IF d = 0
           THEN [scanner |-> Scanner(s.in_string, FALSE, d),
                 returned |-> TRUE, pos |-> p]
           ELSE [scanner |-> Scanner(s.in_string, s.in_interpolation, d),
                 returned |-> FALSE, pos |-> p]
    ELSE [scanner |-> s, returned |-> FALSE, pos |-> p]

(* scan_interpolation_end reporting the end at every closing brace *)
scan_interpolation_end_any(text, p, s) ==
  IF s.in_interpolation /\ lookahead(text, p) = RBRACE
    THEN [scanner |-> Scanner(s.in_string, FALSE,
                              (s.interpolation_depth - 1) % Uint8Range),
          returned |-> TRUE, pos |-> advance(p)]
    ELSE [scanner |-> s, returned |-> FALSE, pos |-> p]

scan_interpolation_end(text, p, s) ==
  IF s.in_interpolation /\ lookahead(text, p) = RBRACE
    THEN LET d == (s.interpolation_depth - 1) % Uint8Range IN
         IF d = 0
           THEN [scanner |-> Scanner(s.in_string, FALSE, d),
                 returned |-> TRUE, pos |-> advance(p)]
           ELSE [scanner |-> Scanner(s.in_string, s.in_interpolation, d),
                 returned |-> FALSE, pos |-> p]
    ELSE [scanner |-> s, returned |-> FALSE, pos |-> p]

-----------------------------------------------------------------------------
(* tree_sitter_yuho_external_scanner_scan                                  *)

(* a scan that does not skip the whitespace at the cursor *)
skip_whitespace_none(text, p) == p

RECURSIVE skip_whitespace(_, _)
skip_whitespace(text, p) ==
  IF iswspace(lookahead(text, p)) THEN skip_whitespace(text, skip(p)) ELSE p

ScanResult(s, ret, sym, start, p, tr) ==
  [scanner |-> s, returned |-> ret, result_symbol |-> sym,
   token_start |-> start, pos |-> p, trace |-> tr]

(* brace-depth tracking that counts an opening brace twice *)
track_brace_depth_double(text, p, s) ==
  IF s.in_interpolation /\ lookahead(text, p) = LBRACE
    THEN Scanner(s.in_string, s.in_interpolation,
                 (s.interpolation_depth + 2) % Uint8Range)
    ELSE s

(* brace-depth tracking that never counts an opening brace *)
track_brace_depth_none(text, p, s) == s

(* brace-depth tracking inside an interpolation *)
track_brace_depth(text, p, s) ==
  IF s.in_interpolation /\ lookahead(text, p) = LBRACE
    THEN Scanner(s.in_string, s.in_interpolation,
                 (s.interpolation_depth + 1) % Uint8Range)
    ELSE s

(* a scan that gives up whenever the host asks for the error sentinel *)
scan_error_bail(s, text, valid) ==
  LET start == skip_whitespace(text, 1)
      tryEnd == INTERPOLATION_END \in valid /\ s.in_interpolation
      e == IF tryEnd THEN scan_interpolation_end(text, start, s)
                     ELSE [scanner |-> s, returned |-> FALSE, pos |-> start]
  IN
  IF ERROR_SENTINEL \in valid
    THEN ScanResult(s, FALSE, UNSET, start, start, <<>>)
  ELSE IF e.returned
    THEN ScanResult(e.scanner, TRUE, INTERPOLATION_END, start, e.pos, <<>>)
    ELSE
      LET s2 == track_brace_depth(text, start, e.scanner) IN
      IF STRING_CONTENT \in valid /\ s2.in_string
        THEN LET c == scan_string_content(text, start, FALSE, <<>>) IN
             ScanResult(IF c.started
                          THEN Scanner(s2.in_string, TRUE, 1)
                          ELSE s2,
                        c.returned, c.result_symbol, start, c.pos, c.trace)
        ELSE ScanResult(s2, FALSE, UNSET, start, start, <<>>)

scan(s, text, valid) ==
  LET start == skip_whitespace(text, 1)
      tryEnd == INTERPOLATION_END \in valid /\ s.in_interpolation
      e == IF tryEnd THEN scan_interpolation_end(text, start, s)
                     ELSE [scanner |-> s, returned |-> FALSE, pos |-> start]
  IN
  IF e.returned
    THEN ScanResult(e.scanner, TRUE, INTERPOLATION_END, start, e.pos, <<>>)
    ELSE
      LET s2 == track_brace_depth(text, start, e.scanner) IN
      IF STRING_CONTENT \in valid /\ s2.in_string
        THEN LET c == scan_string_content(text, start, FALSE, <<>>) IN
             ScanResult(IF c.started
                          THEN Scanner(s2.in_string, TRUE, 1)
                          ELSE s2,
                        c.returned, c.result_symbol, start, c.pos, c.trace)
        ELSE ScanResult(s2, FALSE, UNSET, start, start, <<>>)

-----------------------------------------------------------------------------
(* State machine                                                           *)

NoCall ==
  /\ input' = <<>>
  /\ valid_symbols' = {}
  /\ returned' = FALSE
  /\ result_symbol' = UNSET
  /\ token_start' = 1
  /\ pos' = 1
  /\ trace' = <<>>

InitWith(s, o) ==
  /\ in_string = s.in_string
  /\ in_interpolation = s.in_interpolation
  /\ interpolation_depth = s.interpolation_depth
  /\ op = o
  /\ prev = s
  /\ input = <<>>
  /\ valid_symbols = {}
  /\ returned = FALSE
  /\ result_symbol = UNSET
  /\ token_start = 1
  /\ pos = 1
  /\ trace = <<>>
  /\ buffer = <<>>
  /\ length = 0

Init == InitWith(create, "create")

(* one call of scan on the text at the cursor, with the accepted kinds *)
ScanCall(text, valid) ==
  LET r == scan(Current, text, valid) IN
  /\ in_string' = r.scanner.in_string
  /\ in_interpolation' = r.scanner.in_interpolation
  /\ interpolation_depth' = r.scanner.interpolation_depth
  /\ op' = "scan"
  /\ prev' = Current
  /\ input' = text
  /\ valid_symbols' = valid
  /\ returned' = r.returned
  /\ result_symbol' = r.result_symbol
  /\ token_start' = r.token_start
  /\ pos' = r.pos
  /\ trace' = r.trace
  /\ buffer' = <<>>
  /\ length' = 0

Scan == \E text \in SessionInputs, valid \in SessionValid : ScanCall(text, valid)

(* the external collaborator that drives in_string *)
SetInString ==
  \E b \in BOOLEAN :
    /\ b # in_string
    /\ in_string' = b
    /\ op' = "set_in_string"
    /\ prev' = Current
    /\ NoCall
    /\ buffer' = <<>>
    /\ length' = 0
    /\ UNCHANGED <<in_interpolation, interpolation_depth>>

(* the host takes a snapshot *)
Serialize ==
  \E char_signed \in BOOLEAN :
    /\ buffer' = serialize(Current, char_signed)
    /\ length' = SnapshotLen
    /\ op' = "serialize"
    /\ prev' = Current
    /\ NoCall
    /\ UNCHANGED scannerVars

DeserializeCall(buf, len) ==
  LET s == deserialize(buf, len) IN
  /\ in_string' = s.in_string
  /\ in_interpolation' = s.in_interpolation
  /\ interpolation_depth' = s.interpolation_depth
  /\ op' = "deserialize"
  /\ prev' = Current
  /\ buffer' = buf
  /\ length' = len
  /\ NoCall

(* the host restores the snapshot it holds *)
Deserialize ==
  /\ length = SnapshotLen
  /\ DeserializeCall(buffer, length)

(* the host restores from a buffer shorter than a snapshot *)
DeserializeShort ==
  \E buf \in Seqs(ByteSamples, SnapshotLen - 1) : DeserializeCall(buf, Len(buf))

Next == Scan \/ SetInString \/ Serialize \/ Deserialize \/ DeserializeShort

Spec == Init /\ [][Next]_vars

-----------------------------------------------------------------------------
(* Session without the external collaborator: the scanner is driven by     *)
(* scan calls and by deserialize calls on three-byte buffers of the host's *)
(* choosing, which are the only way left for in_string to become true.     *)

ForeignBytes == {-1, 0, 1}

DeserializeForeign ==
  \E buf \in [1..SnapshotLen -> ForeignBytes] : DeserializeCall(buf, SnapshotLen)

NextForeign == Scan \/ DeserializeForeign

SpecForeign == Init /\ [][NextForeign]_vars

-----------------------------------------------------------------------------
(* Single-call specification: one scan call on every text of up to MaxLen  *)
(* characters with every set of accepted kinds, from scanner states the    *)
(* session reaches (outside and inside an interpolation, at depth 1, at    *)
(* depth 2, at the top of the counter and after it has wrapped).           *)

CallStates ==
  { Scanner(s, i.a, i.d) :
      s \in BOOLEAN,
      i \in { [a |-> FALSE, d |-> 0], [a |-> TRUE, d |-> 1], [a |-> TRUE, d |-> 2],
              [a |-> TRUE, d |-> Uint8Range - 1], [a |-> TRUE, d |-> 0] } }

InitScan == \E s \in CallStates : InitWith(s, "start")

ScanOnce ==
  /\ op = "start"
  /\ \E text \in Inputs, valid \in SUBSET TokenType : ScanCall(text, valid)

NextScan == ScanOnce

SpecScan == InitScan /\ [][NextScan]_vars

-----------------------------------------------------------------------------
(* Interpolation walk: the host has just been given InterpolationStart for *)
(* a string whose interpolated expression has balanced braces, and calls   *)
(* scan once at each following token position until the text is used up.   *)
(* Where scan reports no token the grammar's own tokenizer takes the       *)
(* character at the cursor.                                                *)

NestExprs ==
  { <<LETTER>>,
    <<LBRACE, RBRACE>>,
    <<LBRACE, LETTER, RBRACE>>,
    <<LBRACE, RBRACE, LBRACE, RBRACE>>,
    <<LBRACE, LBRACE, RBRACE, RBRACE>>,
    <<LETTER, LBRACE, LETTER, RBRACE>>,
    <<SPACE, LBRACE, SPACE, RBRACE, SPACE>>,
    <<LBRACE, LBRACE, LETTER, RBRACE, LBRACE, RBRACE, RBRACE>> }

InitNest ==
  \E expr \in NestExprs :
    LET text == <<DOLLAR, LBRACE>> \o expr \o <<RBRACE>>
        s0 == Scanner(TRUE, FALSE, 0)
        r == scan(s0, text, {STRING_CONTENT})
    IN
    /\ in_string = r.scanner.in_string
    /\ in_interpolation = r.scanner.in_interpolation
    /\ interpolation_depth = r.scanner.interpolation_depth
    /\ op = "scan"
    /\ prev = s0
    /\ input = text
    /\ valid_symbols = {STRING_CONTENT}
    /\ returned = r.returned
    /\ result_symbol = r.result_symbol
    /\ token_start = r.token_start
    /\ pos = r.pos
    /\ trace = r.trace
    /\ buffer = <<>>
    /\ length = 0

(* the text left at the cursor after the last call: after the token if one *)
(* was reported, else after the character the grammar's tokenizer takes    *)
Rest ==
  IF returned THEN SubSeq(input, pos, Len(input))
              ELSE SubSeq(input, pos + 1, Len(input))

HostScan ==
  /\ op = "scan"
  /\ Rest # <<>>
  /\ \E valid \in SUBSET TokenType : ScanCall(Rest, valid)

NextNest == HostScan

SpecNest == InitNest /\ [][NextNest]_vars

-----------------------------------------------------------------------------
(* Properties                                                              *)

Default == Scanner(FALSE, FALSE, 0)

(* the token reported by the last scan call: the characters from the       *)
(* token start up to the cursor                                            *)
TokenSpan == SubSeq(input, token_start, pos - 1)

Reported(kind) == op = "scan" /\ returned /\ result_symbol = kind

(* C1: restoring the three bytes that serialize wrote gives back the very  *)
(* state that was serialized, for every state of the session, whichever    *)
(* signedness char has.                                                    *)
RoundTrip ==
  (op = "deserialize" /\ length >= SnapshotLen) =>
     /\ Current = prev
     /\ \A char_signed \in BOOLEAN :
          deserialize(serialize(Current, char_signed), SnapshotLen) = Current

RoundTripWitness ==
  /\ op = "deserialize"
  /\ length = SnapshotLen
  /\ buffer[3] < 0
  /\ in_string
  /\ in_interpolation
  /\ interpolation_depth = Uint8Range - 1

(* C2: deserialize on a buffer of length 0, 1 or 2 leaves the all-clear    *)
(* state, whatever the bytes and whatever the state before.                *)
ShortBufferResets ==
  (op = "deserialize" /\ length < SnapshotLen) => Current = Default

ShortBufferWitness ==
  /\ op = "deserialize"
  /\ length = 2
  /\ buffer = <<1, 1>>
  /\ prev.in_string
  /\ prev.in_interpolation
  /\ prev.interpolation_depth = 2
  /\ Current = Default

(* C3: outside an interpolation the depth counter is zero.                 *)
DepthZeroOutside == ~in_interpolation => interpolation_depth = 0

DepthZeroOutsideWitness ==
  /\ Reported(INTERPOLATION_END)
  /\ prev.in_interpolation
  /\ ~in_interpolation
  /\ interpolation_depth = 0

-----------------------------------------------------------------------------
(* Single-call properties, checked under SpecScan                          *)

(* the call ran the string-content scan from outside an interpolation *)
StringScan ==
  /\ op = "scan"
  /\ prev.in_string
  /\ ~prev.in_interpolation
  /\ STRING_CONTENT \in valid_symbols

(* a character that is neither a quote, a backslash, a dollar sign nor the *)
(* end-of-input marker *)
Plain(c) == c \notin {QUOTE, BACKSLASH, DOLLAR, NUL}

(* text begins with k plain characters *)
PlainPrefix(text, k) == k <= Len(text) /\ \A i \in 1..k : Plain(text[i])

(* C4: a non-empty run of characters without quote, backslash and dollar   *)
(* (spaces included), followed by a closing quote, is consumed whole and   *)
(* reported as StringContent spanning exactly the run; the quote is left.  *)
PlainContentWhole ==
  \A k \in 1..Len(input) :
    (StringScan /\ PlainPrefix(input, k) /\ lookahead(input, k + 1) = QUOTE) =>
       /\ Reported(STRING_CONTENT)
       /\ pos = k + 1
       /\ TokenSpan = SubSeq(input, 1, k)

(* Lexical reading of a text, independent of the loop: a character is     *)
(* escaped when an unescaped backslash stands before it; an opener is an   *)
(* unescaped dollar sign followed by a brace; the string content ends at   *)
(* the first end-of-input marker or unescaped quote.                       *)
RECURSIVE Escaped(_, _)
Escaped(text, i) ==
  /\ i > 1
  /\ text[i - 1] = BACKSLASH
  /\ ~Escaped(text, i - 1)

OpenerAt(text, i) ==
  /\ lookahead(text, i) = DOLLAR
  /\ ~Escaped(text, i)
  /\ lookahead(text, i + 1) = LBRACE

EndAt(text, j) ==
  \/ text[j] = NUL
  \/ text[j] = QUOTE /\ ~Escaped(text, j)

(* neither the end of the content nor an opener comes before position i *)
ContentUpTo(text, i) ==
  \A j \in 1..(i - 1) : ~EndAt(text, j) /\ ~OpenerAt(text, j)

(* C5: a backslash in string content takes the next character with it:    *)
(* both are in the token, the loop goes on at the character after, and the *)
(* escaped character is never looked at as a quote or as an opener.        *)
EscapedPair ==
  (op = "scan" /\ trace # <<>>) =>
    \A p \in 1..Len(input) :
      ( /\ input[p] = BACKSLASH
        /\ ~Escaped(input, p)
        /\ ContentUpTo(input, p)
        /\ ~eof(input, p + 1)
        /\ lookahead(input, p + 1) # NUL ) =>
        /\ \E i \in 1..(Len(trace) - 1) : trace[i] = p /\ trace[i + 1] = p + 2
        /\ \A j \in 1..Len(trace) : trace[j] # p + 1
        /\ returned
        /\ token_start <= p
        /\ pos >= p + 2
        /\ (Reported(INTERPOLATION_START) => pos > p + 3)
        /\ (~Reported(INTERPOLATION_START) =>
              /\ in_interpolation = prev.in_interpolation
              /\ (~prev.in_interpolation =>
                    interpolation_depth = prev.interpolation_depth))

EscapedPairWitness ==
  /\ StringScan
  /\ input = <<BACKSLASH, DOLLAR, LBRACE>>
  /\ Reported(STRING_CONTENT)
  /\ TokenSpan = input
  /\ ~in_interpolation
  /\ interpolation_depth = 0

(* the text has an opener before its string content ends *)
MeetsOpener(text) ==
  \E i \in 1..Len(text) : OpenerAt(text, i) /\ ContentUpTo(text, i)

(* C6: a string-content scan from outside an interpolation that meets an   *)
(* unescaped opener reports InterpolationStart and leaves the scanner in   *)
(* an interpolation at depth 1, with or without literal characters before. *)
OpenerStartsInterpolation ==
  (StringScan /\ MeetsOpener(input)) =>
     /\ Reported(INTERPOLATION_START)
     /\ in_string
     /\ in_interpolation
     /\ interpolation_depth = 1

OpenerStartsInterpolationWitness ==
  /\ StringScan
  /\ input = <<LETTER, DOLLAR, LBRACE>>
  /\ Reported(INTERPOLATION_START)
  /\ in_interpolation
  /\ interpolation_depth = 1

OpenerAtStartWitness ==
  /\ StringScan
  /\ input = <<DOLLAR, LBRACE, LETTER>>
  /\ Reported(INTERPOLATION_START)
  /\ in_interpolation
  /\ interpolation_depth = 1

(* C7: an InterpolationStart token spans exactly the two characters of the *)
(* opener.                                                                 *)
StartSpansOpener ==
  Reported(INTERPOLATION_START) => TokenSpan = <<DOLLAR, LBRACE>>

(* text is k-1 whitespace characters and then a closing brace *)
BraceAfterWhitespace(text, k) ==
  /\ k <= Len(text)
  /\ text[k] = RBRACE
  /\ \A j \in 1..(k - 1) : iswspace(text[j])

(* C9: at depth 1 with InterpolationEnd accepted, a closing brace that is  *)
(* the next non-whitespace character is reported as InterpolationEnd       *)
(* spanning that one character, and the interpolation is over.             *)
ClosingBraceEnds ==
  \A k \in 1..Len(input) :
    ( /\ op = "scan"
      /\ prev.in_interpolation
      /\ prev.interpolation_depth = 1
      /\ INTERPOLATION_END \in valid_symbols
      /\ BraceAfterWhitespace(input, k) ) =>
       /\ Reported(INTERPOLATION_END)
       /\ token_start = k
       /\ pos = k + 1
       /\ TokenSpan = <<RBRACE>>
       /\ ~in_interpolation
       /\ interpolation_depth = 0
       /\ in_string = prev.in_string

ClosingBraceEndsWitness ==
  /\ op = "scan"
  /\ prev = Scanner(TRUE, TRUE, 1)
  /\ valid_symbols = TokenType
  /\ input = <<SPACE, RBRACE, LETTER>>
  /\ Reported(INTERPOLATION_END)
  /\ Current = Scanner(TRUE, FALSE, 0)

(* C10: one or more plain characters and then end of input: the call       *)
(* reports StringContent covering all of them and leaves the scanner as    *)
(* it was.                                                                 *)
UnterminatedKept ==
  (StringScan /\ Len(input) >= 1 /\ PlainPrefix(input, Len(input))) =>
     /\ Reported(STRING_CONTENT)
     /\ TokenSpan = input
     /\ Current = prev

-----------------------------------------------------------------------------
(* Nested braces, checked under SpecNest                                   *)

RECURSIVE Count(_, _)
Count(text, c) ==
  IF text = <<>> THEN 0
  ELSE (IF Head(text) = c THEN 1 ELSE 0) + Count(Tail(text), c)

(* the number of braces open at the head of text, the opener's included:   *)
(* text runs to the brace that matches the opener, so every open brace is  *)
(* closed in it                                                            *)
OpenBraces(text) == Count(text, RBRACE) - Count(text, LBRACE)

(* what the last call did at a brace, against the nesting of the text *)
BraceTracked ==
  /\ (lookahead(input, token_start) = LBRACE =>
        interpolation_depth = prev.interpolation_depth + 1)
  /\ ((lookahead(input, token_start) = RBRACE /\ OpenBraces(input) > 1) =>
        /\ interpolation_depth = prev.interpolation_depth - 1
        /\ ~Reported(INTERPOLATION_END)
        /\ in_interpolation)
  /\ ((lookahead(input, token_start) = RBRACE /\ OpenBraces(input) = 1) =>
        /\ Reported(INTERPOLATION_END)
        /\ interpolation_depth = 0
        /\ ~in_interpolation)

(* a call of the walk made inside the interpolation with the counter equal *)
(* to the nesting of the text at the cursor                                *)
WalkCall ==
  /\ op = "scan"
  /\ prev.in_interpolation
  /\ prev.interpolation_depth = OpenBraces(input)

NestedBracesEndWitness ==
  /\ WalkCall
  /\ input = <<RBRACE>>
  /\ prev.interpolation_depth = 1
  /\ Reported(INTERPOLATION_END)
  /\ ~in_interpolation

-----------------------------------------------------------------------------
(* Further single-call properties, checked under SpecScan                  *)

(* what the last call gave: scanner, return value, symbol, token, cursor *)
Outcome ==
  ScanResult(Current, returned, result_symbol, token_start, pos, trace)

(* C11: a reported token is StringContent, InterpolationStart or           *)
(* InterpolationEnd, never ErrorSentinel; and the same call with           *)
(* ErrorSentinel added to or taken from the accepted kinds has the same    *)
(* outcome.                                                                *)
ErrorSentinelInert ==
  op = "scan" =>
    /\ (returned =>
          result_symbol \in {STRING_CONTENT, INTERPOLATION_START, INTERPOLATION_END})
    /\ result_symbol # ERROR_SENTINEL
    /\ scan(prev, input, valid_symbols \cup {ERROR_SENTINEL}) = Outcome
    /\ scan(prev, input, valid_symbols \ {ERROR_SENTINEL}) = Outcome

ErrorSentinelWitness ==
  /\ op = "scan"
  /\ valid_symbols = TokenType
  /\ prev = Scanner(TRUE, FALSE, 0)
  /\ input = <<LETTER, SPACE, LETTER>>
  /\ Reported(STRING_CONTENT)

(* C12: the whitespace loop stops at the latest at end of input, every     *)
(* iteration of the string-content loop but the last begins further on in  *)
(* the text than the one before, and no iteration begins beyond end of     *)
(* input: the call ends after at most one iteration per position.          *)
ScanTerminates ==
  op = "scan" =>
    /\ token_start \in 1..(Len(input) + 1)
    /\ \A j \in 1..(token_start - 1) : iswspace(input[j])
    /\ ~iswspace(lookahead(input, token_start))
    /\ \A i \in 1..(Len(trace) - 1) : trace[i + 1] > trace[i]
    /\ \A i \in 1..Len(trace) : trace[i] \in token_start..(Len(input) + 1)
    /\ Len(trace) <= Len(input) + 2 - token_start
    /\ pos \in token_start..(Len(input) + 1)

ScanTerminatesWitness ==
  /\ StringScan
  /\ input = <<SPACE, DOLLAR, BACKSLASH>>
  /\ trace = <<2, 3, 4>>
  /\ pos = 4
  /\ Reported(STRING_CONTENT)

(* C13 as stated: no reported token has a whitespace character in its span *)
NoWhitespaceInToken ==
  (op = "scan" /\ returned) =>
     \A i \in 1..Len(TokenSpan) : ~iswspace(TokenSpan[i])

(* C13: the whitespace at the cursor is skipped, so a reported token is    *)
(* not empty and does not begin with whitespace, and only whitespace lies  *)
(* before it; whitespace further on in string content is in the token.     *)
NoLeadingWhitespaceInToken ==
  (op = "scan" /\ returned) =>
     /\ TokenSpan # <<>>
     /\ ~iswspace(TokenSpan[1])
     /\ \A j \in 1..(token_start - 1) : iswspace(input[j])
     /\ (result_symbol = INTERPOLATION_END => TokenSpan = <<RBRACE>>)

NoLeadingWhitespaceWitness ==
  /\ StringScan
  /\ input = <<SPACE, LETTER, SPACE>>
  /\ Reported(STRING_CONTENT)
  /\ TokenSpan = <<LETTER, SPACE>>

-----------------------------------------------------------------------------
(* in_string, checked under SpecForeign                                    *)

(* the last call was a deserialize of a snapshot that sets byte i *)
RestoredByte(i) ==
  op = "deserialize" /\ length >= SnapshotLen /\ buffer[i] # 0

(* scan leaves in_string as it was; only deserialize changes it *)
InStringFrame ==
  /\ (op' = "scan" => in_string' = in_string)
  /\ (in_string' # in_string => op' = "deserialize")

(* C14 as stated: scan never changes in_string, and as long as no buffer   *)
(* with a non-zero first byte is restored, in_string stays false and scan  *)
(* reports no token.                                                       *)
InStringReadOnly ==
  [][ /\ InStringFrame
      /\ ((~in_string /\ ~RestoredByte(1)') =>
            (~in_string' /\ ~returned')) ]_vars

(* C14: scan never changes in_string, and as long as no buffer with a      *)
(* non-zero first or second byte is restored, in_string and                *)
(* in_interpolation stay false and scan reports no token.                  *)
InStringReadOnlyFlags ==
  [][ /\ InStringFrame
      /\ ((~in_string /\ ~in_interpolation
             /\ ~RestoredByte(1)' /\ ~RestoredByte(2)') =>
            (~in_string' /\ ~in_interpolation' /\ ~returned')) ]_vars

InStringReadOnlyWitness ==
  /\ op = "scan"
  /\ prev = Scanner(FALSE, FALSE, 0)
  /\ valid_symbols = TokenType
  /\ input = <<LETTER, DOLLAR, LBRACE>>
  /\ ~returned
  /\ Current = prev

InStringKeptWitness ==
  /\ Reported(INTERPOLATION_END)
  /\ prev.in_string
  /\ in_string

-----------------------------------------------------------------------------
(* Result policy, braces and failed calls, checked under SpecScan          *)

(* C15: a string-content scan that stops at a quote or at end of input     *)
(* reports no token exactly when it consumed nothing, and StringContent    *)
(* over the consumed characters whenever it consumed any.                  *)
ContentPolicy ==
  (op = "scan" /\ trace # <<>> /\ result_symbol # INTERPOLATION_START) =>
     /\ (~returned <=> pos = token_start)
     /\ (pos > token_start => Reported(STRING_CONTENT))

(* the first character of text that is not whitespace, the end-of-input    *)
(* marker if there is none                                                 *)
NextChar(text) ==
  LET k == CHOOSE i \in 1..(Len(text) + 1) :
             /\ \A j \in 1..(i - 1) : iswspace(text[j])
             /\ ~iswspace(lookahead(text, i))
  IN lookahead(text, k)

(* the call was made inside an interpolation at an opening brace, or at a  *)
(* closing brace that is not the one bringing the depth to zero            *)
AtInnerBrace ==
  /\ op = "scan"
  /\ prev.in_interpolation
  /\ \/ NextChar(input) = LBRACE
     \/ NextChar(input) = RBRACE /\ prev.interpolation_depth # 1

(* the depth after the call is the depth before it or one step of the      *)
(* 8-bit counter away from it                                              *)
DepthStepAtMostOne ==
  (interpolation_depth - prev.interpolation_depth) % Uint8Range
     \in {0, 1, Uint8Range - 1}

(* C16 as stated: at an inner brace scan consumes nothing and reports no   *)
(* token, for every in_string and every set of accepted kinds, and the     *)
(* depth moves by at most one.                                             *)
InnerBraceLeft ==
  AtInnerBrace =>
     /\ ~returned
     /\ pos = token_start
     /\ DepthStepAtMostOne

(* C16: the same where the string-content scan is not entered              *)
(* (StringContent not accepted or in_string false); the depth then goes up *)
(* by one at an opening brace, down by one at a closing brace with         *)
(* InterpolationEnd accepted, and stays otherwise.                         *)
InnerBraceLeftOutsideString ==
  (AtInnerBrace /\ ~(STRING_CONTENT \in valid_symbols /\ prev.in_string)) =>
     /\ ~returned
     /\ pos = token_start
     /\ DepthStepAtMostOne
     /\ in_interpolation
     /\ interpolation_depth =
          ( prev.interpolation_depth
            + (IF NextChar(input) = LBRACE THEN 1
               ELSE IF INTERPOLATION_END \in valid_symbols THEN -1 ELSE 0) )
          % Uint8Range

InnerBraceWitness ==
  /\ AtInnerBrace
  /\ prev = Scanner(TRUE, TRUE, 2)
  /\ valid_symbols = {INTERPOLATION_START, INTERPOLATION_END}
  /\ input = <<SPACE, RBRACE, RBRACE>>
  /\ ~returned
  /\ interpolation_depth = 1

(* C18 as stated: a call that reports no token leaves the scanner as it    *)
(* was.                                                                    *)
FailedScanKeepsState ==
  (op = "scan" /\ ~returned) => Current = prev

(* C18: a call that reports no token leaves in_string and in_interpolation *)
(* as they were, and the depth too except inside an interpolation at an    *)
(* opening brace (one up) or at a closing brace with InterpolationEnd      *)
(* accepted (one down).                                                    *)
FailedScanKeepsFlags ==
  (op = "scan" /\ ~returned) =>
     /\ in_string = prev.in_string
     /\ in_interpolation = prev.in_interpolation
     /\ interpolation_depth =
          IF prev.in_interpolation /\ NextChar(input) = LBRACE
            THEN (prev.interpolation_depth + 1) % Uint8Range
          ELSE IF prev.in_interpolation /\ NextChar(input) = RBRACE
                  /\ INTERPOLATION_END \in valid_symbols
            THEN (prev.interpolation_depth - 1) % Uint8Range
          ELSE prev.interpolation_depth

FailedScanWitness ==
  /\ op = "scan"
  /\ ~returned
  /\ prev = Scanner(FALSE, TRUE, 2)
  /\ valid_symbols = {INTERPOLATION_END}
  /\ input = <<RBRACE, LETTER>>
  /\ Current = Scanner(FALSE, TRUE, 1)

(* C19: a reported token is of a kind the host accepts.                    *)
OnlyAcceptedKinds ==
  (op = "scan" /\ returned) => result_symbol \in valid_symbols

-----------------------------------------------------------------------------
(* Depth and alternation over the session, checked under Spec              *)

(* C17: inside an interpolation the depth is at least 1.                   *)
DepthAtLeastOne == in_interpolation => interpolation_depth >= 1

(* C20: InterpolationStart is reported only outside an interpolation and   *)
(* InterpolationEnd only inside one, so starts and ends alternate.         *)
StartEndAlternate ==
  /\ (Reported(INTERPOLATION_START) => ~prev.in_interpolation)
  /\ (Reported(INTERPOLATION_END) => prev.in_interpolation)

====
